---- MODULE Spec2Model ----
(***************************************************************************)
(* Model of the session store engine of session-store-js:                  *)
(* src/storages/memoryStore.js (class MemoryStore), checked under Spec,    *)
(* and src/storages/fileStore.js (class FileStore), checked under FileSpec.*)
(*                                                                         *)
(* A JavaScript Map is modelled as a sequence of <<key, value>> pairs in    *)
(* insertion order, because the code iterates both maps (cleanupSessions,  *)
(* rebuildIndex, all) and Map iteration follows insertion order.           *)
(***************************************************************************)
EXTENDS Integers, Sequences, FiniteSets, TLC

\* ---------------------------------------------------------------- bounds
\* The clock (Date.now()) runs over 0..MaxNow.
MaxNow == 3
\* options.maxAge, scaled down from milliseconds to clock ticks.
maxAge == 2

\* The callbacks handed to process.nextTick that have not run yet are at
\* most MaxPending.
MaxPending == 1

\* options.ttl of the file store, in clock ticks (this.ttl * 1000 ms).
ttl == 1
\* Under FileSpec the clock runs over 0..FileMaxNow.
FileMaxNow == 1

\* Session identifiers and session payloads the callers use.
Sids == {"s1", "s2"}
Payloads == {[a |-> 1], [b |-> 2]}

VARIABLES
    sessions,                \* this.sessions: Map sid -> {data, expires}
    expirationIndex,         \* this.expirationIndex: Map expires -> sid
    cleanupIntervalId,       \* this.cleanupIntervalId: 0 (null) or a timer handle
    indexRebuildIntervalId,  \* this.indexRebuildIntervalId: 0 (null) or a timer handle
    timers,                  \* the active setInterval timers: {[id, loop]}
    now,                     \* Date.now()
    pending,                 \* the process.nextTick queue: callbacks of set and get to run
    lastCall,                \* the step taken last: a method called, or a deferred
                             \* callback run, with what the callback received
    history,                 \* per sid: whether it was ever set, and destroyed since
    directory,               \* FileStore: what is at this.path, and where ensureDirectory stands
    files,                   \* FileStore: the files of this.path, sid -> content
    calls                    \* FileStore: the calls in flight, and what they called back with

vars == <<sessions, expirationIndex, cleanupIntervalId, indexRebuildIntervalId,
          timers, now, pending, lastCall, history>>

\* ------------------------------------------------------- JavaScript Map
\* Map.prototype.has
MapHas(m, k) == \E i \in 1..Len(m) : m[i][1] = k

\* Map.prototype.get (of a key the map has)
MapGet(m, k) == m[CHOOSE i \in 1..Len(m) : m[i][1] = k][2]

\* Map.prototype.set: an existing key keeps its place, a new key goes last
MapSet(m, k, v) ==
    IF MapHas(m, k)
    THEN [i \in 1..Len(m) |-> IF m[i][1] = k THEN <<k, v>> ELSE m[i]]
    ELSE Append(m, <<k, v>>)

\* Map.prototype.delete
MapDelete(m, k) == SelectSeq(m, LAMBDA e : e[1] # k)

\* Map.prototype.size
MapSize(m) == Len(m)

\* The keys of a map, as a set
MapKeys(m) == {m[i][1] : i \in 1..Len(m)}

\* The object spread {...session}: a copy of the own properties
Spread(session) == [k \in DOMAIN session |-> session[k]]

\* null, for the two interval ids (timer handles are 1, 2, ...)
Null == 0

\* ------------------------------------------------- MemoryStore methods
\* Each method is a function of the store st = [sessions, expirationIndex]
\* (and of the clock t = Date.now()) to the store it leaves behind.

\* The store as a record of the two maps
Store == [sessions |-> sessions, expirationIndex |-> expirationIndex]

\* set(sid, session, callback)
set(st, sid, session, t) ==
    LET expires == t + maxAge
    IN  [sessions        |-> MapSet(st.sessions, sid, [data |-> Spread(session), expires |-> expires]),
         expirationIndex |-> MapSet(st.expirationIndex, expires, sid)]

\* destroy as it would be without this.sessions.delete(sid)
destroyKeepsRecord(st, sid) ==
    IF MapHas(st.sessions, sid)
    THEN [sessions        |-> st.sessions,
          expirationIndex |-> MapDelete(st.expirationIndex, MapGet(st.sessions, sid).expires)]
    ELSE st

\* destroy(sid, callback)
destroy(st, sid) ==
    IF MapHas(st.sessions, sid)
    THEN LET sessionData == MapGet(st.sessions, sid)
         IN  [sessions        |-> MapDelete(st.sessions, sid),
              expirationIndex |-> MapDelete(st.expirationIndex, sessionData.expires)]
    ELSE st

\* get(sid, callback): the test that makes get report no session
getMisses(st, sid, t) ==
    \/ ~MapHas(st.sessions, sid)
    \/ t > MapGet(st.sessions, sid).expires

\* get(sid, callback): the arguments the callback receives
getArgs(st, sid, t) ==
    IF getMisses(st, sid, t)
    THEN <<>>
    ELSE <<Null, MapGet(st.sessions, sid).data>>

\* get(sid, callback): the store it leaves (an expired record is destroyed)
get(st, sid, t) ==
    IF getMisses(st, sid, t) /\ MapHas(st.sessions, sid)
    THEN destroy(st, sid)
    ELSE st

\* all(callback): the filter on the entries of this.sessions
allFilter(sessionData, t) == t < sessionData.expires

\* all(callback): the filter and the map over the first n entries of
\* this.sessions; the filter reads Date.now() anew for every entry, and
\* reads[i] is what the read for entry i returns
RECURSIVE allLoop(_, _, _)
allLoop(entries, reads, n) ==
    IF n = 0
    THEN <<>>
    ELSE LET rest == allLoop(entries, reads, n - 1)
         IN  IF allFilter(entries[n][2], reads[n])
             THEN Append(rest, [sid |-> entries[n][1], session |-> entries[n][2].data])
             ELSE rest

\* all(callback): the array the callback receives
all(st, reads) == allLoop(st.sessions, reads, Len(st.sessions))

\* length(callback): the count the callback receives
length(st) == MapSize(st.sessions)

\* clear as it would be without this.expirationIndex.clear()
clearKeepsIndex(st) == [sessions |-> <<>>, expirationIndex |-> st.expirationIndex]

\* clear(callback)
clear(st) == [sessions |-> <<>>, expirationIndex |-> <<>>]

\* touch as it would be without the if (sessionData) guard: an upsert
touchUpserts(st, sid, session, t) ==
    [sessions        |-> MapSet(st.sessions, sid, [data |-> session, expires |-> t + maxAge]),
     expirationIndex |-> MapSet(st.expirationIndex, t + maxAge, sid)]

\* touch as it would be without sessionData.expires = newExpires
touchKeepsExpires(st, sid, session, t) ==
    IF MapHas(st.sessions, sid)
    THEN LET oldExpires == MapGet(st.sessions, sid).expires
         IN  [sessions        |-> MapSet(st.sessions, sid, [data |-> session, expires |-> oldExpires]),
              expirationIndex |-> MapSet(MapDelete(st.expirationIndex, oldExpires), t + maxAge, sid)]
    ELSE st

\* touch(sid, session, callback)
touch(st, sid, session, t) ==
    IF MapHas(st.sessions, sid)
    THEN LET sessionData == MapGet(st.sessions, sid)
             oldExpires  == sessionData.expires
             newExpires  == t + maxAge
         IN  [sessions        |-> MapSet(st.sessions, sid, [data |-> session, expires |-> newExpires]),
              expirationIndex |-> MapSet(MapDelete(st.expirationIndex, oldExpires), newExpires, sid)]
    ELSE st

\* cleanupSessions(): the for..of loop over this.expirationIndex.  Every
\* entry the loop has visited was deleted, so the entry it visits next is
\* the first one left; it stops at the first entry with expires > now.
RECURSIVE cleanupSessions(_, _)
cleanupSessions(st, t) ==
    IF st.expirationIndex = <<>>
    THEN st
    ELSE LET expires == st.expirationIndex[1][1]
             sid     == st.expirationIndex[1][2]
         IN  IF expires <= t
             THEN LET d == destroy(st, sid)
                  IN  cleanupSessions([sessions        |-> d.sessions,
                                       expirationIndex |-> MapDelete(d.expirationIndex, expires)], t)
             ELSE st

\* The test of rebuildIndex as it would be with >= for >
rebuildKeepsBoundary(sessionData, t) == sessionData.expires >= t

\* rebuildIndex(): the test that keeps a record
rebuildKeeps(sessionData, t) == sessionData.expires > t

\* rebuildIndex(): newIndex after the first n entries of this.sessions; the
\* loop reads Date.now() anew for every record, and reads[i] is what the
\* read for entry i returns
RECURSIVE rebuildLoop(_, _, _)
rebuildLoop(entries, n, reads) ==
    IF n = 0
    THEN <<>>
    ELSE LET newIndex == rebuildLoop(entries, n - 1, reads)
             sid == entries[n][1]
             sessionData == entries[n][2]
         IN  IF rebuildKeeps(sessionData, reads[n])
             THEN MapSet(newIndex, sessionData.expires, sid)
             ELSE newIndex

\* rebuildIndex(): this.sessions after the loop went over its first n
\* entries (a record that fails the test is deleted)
RECURSIVE rebuildSessions(_, _, _)
rebuildSessions(entries, n, reads) ==
    IF n = 0
    THEN <<>>
    ELSE LET kept == rebuildSessions(entries, n - 1, reads)
         IN  IF rebuildKeeps(entries[n][2], reads[n])
             THEN Append(kept, entries[n])
             ELSE kept

\* rebuildIndex()
rebuildIndex(st, reads) ==
    [sessions        |-> rebuildSessions(st.sessions, Len(st.sessions), reads),
     expirationIndex |-> rebuildLoop(st.sessions, Len(st.sessions), reads)]

\* setInterval: the handle of the new timer (one no active timer has)
setInterval(ts) == CHOOSE id \in 1..(Cardinality(ts) + 1) : \A x \in ts : x.id # id

\* clearInterval(id)
clearInterval(ts, id) == {x \in ts : x.id # id}

\* The timers of one loop that are active
TimersOf(loop) == {x \in timers : x.loop = loop}

\* The record of sid in the primary map
Record(sid) == MapGet(sessions, sid)

\* sid is physically present in the primary map
Present(sid) == MapHas(sessions, sid)

\* ------------------------------------------------ process.nextTick queue
\* set and get hand their callback to process.nextTick and return: the
\* callback runs once the calls of the current run have returned.  An entry
\* of the queue is the callback of one call.  The closure of a get that hit
\* holds the record object and reads its data when it runs (ref); every
\* other entry carries the arguments it calls back with (args).

\* set(sid, session, callback): () => callback(null)
setDeferred(sid) == [op |-> "set", sid |-> sid, ref |-> FALSE, args |-> <<Null>>]

\* get(sid, callback): () => callback() on a miss,
\* () => callback(null, sessionData.data) on a hit
getDeferred(st, sid, t) ==
    [op |-> "get", sid |-> sid, ref |-> ~getMisses(st, sid, t), args |-> <<>>]

\* The arguments the deferred callback e hands over when it runs on store st
deferredArgs(e, st) ==
    IF e.ref THEN <<Null, MapGet(st.sessions, e.sid).data>> ELSE e.args

\* The queue once the record objects of the sids in gone have left the
\* primary map of st: a closure keeps the object it holds, which no later
\* call changes
detach(p, st, gone) ==
    [i \in 1..Len(p) |->
        IF p[i].ref /\ p[i].sid \in gone
        THEN [p[i] EXCEPT !.ref = FALSE, !.args = deferredArgs(p[i], st)]
        ELSE p[i]]

\* The sids whose record object is in store st and not in the store after
Gone(st, after) == MapKeys(st.sessions) \ MapKeys(after.sessions)

\* ------------------------------------------------------------ the clock
\* What n successive reads of Date.now() can return in a call made when
\* the clock stands at t: the first read returns t, and the clock may
\* advance between two reads, never go back
ClockReads(n, t) ==
    {r \in [1..n -> t..MaxNow] :
        /\ n >= 1 => r[1] = t
        /\ \A i \in 1..n : \A j \in i..n : r[i] <= r[j]}

\* n reads of a clock that stands still at t
SameRead(n, t) == [i \in 1..n |-> t]

\* The clock after the reads
LastRead(reads, t) == IF Len(reads) = 0 THEN t ELSE reads[Len(reads)]

\* ------------------------------------------------------------- history
\* history[sid].everSet: set(sid) was called at some time.
\* history[sid].destroyed: destroy(sid) was called, and set(sid) not since.
NoHistory == [everSet |-> FALSE, destroyed |-> FALSE]

\* ------------------------------------------------------------- actions
\* constructor(options)
Init ==
    /\ sessions = <<>>
    /\ expirationIndex = <<>>
    /\ cleanupIntervalId = Null
    /\ indexRebuildIntervalId = Null
    /\ timers = {}
    /\ now = 0
    /\ pending = <<>>
    /\ lastCall = [op |-> "constructor"]
    /\ history = [s \in Sids |-> NoHistory]

\* The file store variables
fileVars == <<directory, files, calls>>

\* No step of the file store: the two stores share no state
FileIdle == UNCHANGED fileVars

\* The store after a call
Becomes(st) ==
    /\ sessions' = st.sessions
    /\ expirationIndex' = st.expirationIndex

\* The closures in the queue after a call that leaves the store st
Detaches(st) == pending' = detach(pending, Store, Gone(Store, st))

\* store.set(sid, session, callback): the maps change, the callback is
\* deferred; the record of sid is a new object
Set(sid, session) ==
    /\ Len(pending) < MaxPending
    /\ Becomes(set(Store, sid, session, now))
    /\ pending' = Append(detach(pending, Store, {sid}), setDeferred(sid))
    /\ FileIdle
    /\ lastCall' = [op |-> "set", sid |-> sid, session |-> session]
    /\ history' = [history EXCEPT ![sid] = [everSet |-> TRUE, destroyed |-> FALSE]]
    /\ UNCHANGED <<cleanupIntervalId, indexRebuildIntervalId, timers, now>>

\* store.get(sid, callback): hit or miss is decided and an expired record
\* destroyed, the callback is deferred
Get(sid) ==
    /\ Len(pending) < MaxPending
    /\ Becomes(get(Store, sid, now))
    /\ pending' = Append(detach(pending, Store, Gone(Store, get(Store, sid, now))),
                         getDeferred(Store, sid, now))
    /\ FileIdle
    /\ lastCall' = [op |-> "get", sid |-> sid]
    /\ UNCHANGED <<cleanupIntervalId, indexRebuildIntervalId, timers, now, history>>

\* The callback at the head of the process.nextTick queue runs
NextTick ==
    /\ pending # <<>>
    /\ pending' = Tail(pending)
    /\ FileIdle
    /\ lastCall' = [op     |-> "callback",
                    of     |-> Head(pending).op,
                    sid    |-> Head(pending).sid,
                    stored |-> Head(pending).ref,
                    args   |-> deferredArgs(Head(pending), Store)]
    /\ UNCHANGED <<sessions, expirationIndex, cleanupIntervalId, indexRebuildIntervalId,
                   timers, now, history>>

\* The caller holds the data object of the record of sid: get or all has
\* just handed it over, or it is the session the caller has just passed to
\* touch (sessionData.data = session stores the caller's own object)
CallerHolds(sid) ==
    /\ Present(sid)
    /\ \/ lastCall.op = "callback" /\ lastCall.stored /\ lastCall.sid = sid
       \/ lastCall.op = "all"
            /\ \E i \in 1..Len(lastCall.args[2]) : lastCall.args[2][i].sid = sid
       \/ lastCall.op = "touch" /\ lastCall.sid = sid

\* The caller writes to the session object it holds, which is the data of
\* the stored record: its properties become those of session
CallerWrites(sid, session) ==
    /\ CallerHolds(sid)
    /\ sessions' = MapSet(sessions, sid, [Record(sid) EXCEPT !.data = session])
    /\ FileIdle
    /\ lastCall' = [op |-> "write", sid |-> sid, session |-> session]
    /\ UNCHANGED <<expirationIndex, cleanupIntervalId, indexRebuildIntervalId,
                   timers, now, pending, history>>

\* store.destroy(sid, callback)
Destroy(sid) ==
    /\ Becomes(destroy(Store, sid))
    /\ Detaches(destroy(Store, sid))
    /\ FileIdle
    /\ lastCall' = [op |-> "destroy", sid |-> sid, args |-> <<>>]
    /\ history' = [history EXCEPT ![sid].destroyed = TRUE]
    /\ UNCHANGED <<cleanupIntervalId, indexRebuildIntervalId, timers, now>>

\* store.all(callback): one read of the clock for every entry
All ==
    \E reads \in ClockReads(Len(sessions), now) :
        /\ now' = LastRead(reads, now)
        /\ FileIdle
        /\ lastCall' = [op |-> "all", args |-> <<Null, all(Store, reads)>>]
        /\ UNCHANGED <<sessions, expirationIndex, cleanupIntervalId,
                       indexRebuildIntervalId, timers, pending, history>>

\* store.length(callback)
Length ==
    /\ FileIdle
    /\ lastCall' = [op |-> "length", args |-> <<Null, length(Store)>>]
    /\ UNCHANGED <<sessions, expirationIndex, cleanupIntervalId, indexRebuildIntervalId,
                   timers, now, pending, history>>

\* store.clear(callback)
Clear ==
    /\ Becomes(clear(Store))
    /\ Detaches(clear(Store))
    /\ FileIdle
    /\ lastCall' = [op |-> "clear", args |-> <<>>]
    /\ UNCHANGED <<cleanupIntervalId, indexRebuildIntervalId, timers, now, history>>

\* store.touch(sid, session, callback): the record object stays, changed
\* in place
Touch(sid, session) ==
    /\ Becomes(touch(Store, sid, session, now))
    /\ FileIdle
    /\ lastCall' = [op |-> "touch", sid |-> sid, session |-> session, args |-> <<>>]
    /\ UNCHANGED <<cleanupIntervalId, indexRebuildIntervalId, timers, now, pending,
                   history>>

\* The cleanup timer fires: () => this.cleanupSessions().  A timer fires
\* when the process.nextTick queue is empty.
CleanupSessions ==
    /\ TimersOf("cleanup") # {}
    /\ pending = <<>>
    /\ Becomes(cleanupSessions(Store, now))
    /\ FileIdle
    /\ lastCall' = [op |-> "cleanupSessions"]
    /\ UNCHANGED <<cleanupIntervalId, indexRebuildIntervalId, timers, now, pending,
                   history>>

\* The index-rebuild timer fires: () => this.rebuildIndex(), with one read
\* of the clock for every record
RebuildIndex ==
    /\ TimersOf("rebuild") # {}
    /\ pending = <<>>
    /\ \E reads \in ClockReads(Len(sessions), now) :
        /\ Becomes(rebuildIndex(Store, reads))
        /\ now' = LastRead(reads, now)
    /\ FileIdle
    /\ lastCall' = [op |-> "rebuildIndex"]
    /\ UNCHANGED <<cleanupIntervalId, indexRebuildIntervalId, timers, pending, history>>

\* startCleanup(): the timers and the interval id it leaves
startCleanup(ts, id) ==
    IF id = Null
    THEN [timers |-> ts \cup {[id |-> setInterval(ts), loop |-> "cleanup"]},
          id |-> setInterval(ts)]
    ELSE [timers |-> ts, id |-> id]

\* stopCleanup as it would be without clearInterval(this.cleanupIntervalId)
stopCleanupLeavesTimer(ts, id) == [timers |-> ts, id |-> Null]

\* stopCleanup(): the timers and the interval id it leaves
stopCleanup(ts, id) ==
    IF id # Null
    THEN [timers |-> clearInterval(ts, id), id |-> Null]
    ELSE [timers |-> ts, id |-> id]

\* startIndexRebuild(): the timers and the interval id it leaves
startIndexRebuild(ts, id) ==
    IF id = Null
    THEN [timers |-> ts \cup {[id |-> setInterval(ts), loop |-> "rebuild"]},
          id |-> setInterval(ts)]
    ELSE [timers |-> ts, id |-> id]

\* stopIndexRebuild(): the timers and the interval id it leaves
stopIndexRebuild(ts, id) ==
    IF id # Null
    THEN [timers |-> clearInterval(ts, id), id |-> Null]
    ELSE [timers |-> ts, id |-> id]

\* store.startCleanup()
StartCleanup ==
    /\ timers' = startCleanup(timers, cleanupIntervalId).timers
    /\ cleanupIntervalId' = startCleanup(timers, cleanupIntervalId).id
    /\ FileIdle
    /\ lastCall' = [op |-> "startCleanup"]
    /\ UNCHANGED <<sessions, expirationIndex, indexRebuildIntervalId, now, pending, history>>

\* store.stopCleanup()
StopCleanup ==
    /\ timers' = stopCleanup(timers, cleanupIntervalId).timers
    /\ cleanupIntervalId' = stopCleanup(timers, cleanupIntervalId).id
    /\ FileIdle
    /\ lastCall' = [op |-> "stopCleanup"]
    /\ UNCHANGED <<sessions, expirationIndex, indexRebuildIntervalId, now, pending, history>>

\* store.startIndexRebuild()
StartIndexRebuild ==
    /\ timers' = startIndexRebuild(timers, indexRebuildIntervalId).timers
    /\ indexRebuildIntervalId' = startIndexRebuild(timers, indexRebuildIntervalId).id
    /\ FileIdle
    /\ lastCall' = [op |-> "startIndexRebuild"]
    /\ UNCHANGED <<sessions, expirationIndex, cleanupIntervalId, now, pending, history>>

\* store.stopIndexRebuild()
StopIndexRebuild ==
    /\ timers' = stopIndexRebuild(timers, indexRebuildIntervalId).timers
    /\ indexRebuildIntervalId' = stopIndexRebuild(timers, indexRebuildIntervalId).id
    /\ FileIdle
    /\ lastCall' = [op |-> "stopIndexRebuild"]
    /\ UNCHANGED <<sessions, expirationIndex, cleanupIntervalId, now, pending, history>>

\* Date.now() advances
Tick ==
    /\ now < MaxNow
    /\ now' = now + 1
    /\ FileIdle
    /\ lastCall' = [op |-> "tick"]
    /\ UNCHANGED <<sessions, expirationIndex, cleanupIntervalId, indexRebuildIntervalId,
                   timers, pending, history>>

Next ==
    \/ \E sid \in Sids, session \in Payloads : Set(sid, session)
    \/ \E sid \in Sids : Get(sid)
    \/ NextTick
    \/ \E sid \in Sids, session \in Payloads : CallerWrites(sid, session)
    \/ \E sid \in Sids : Destroy(sid)
    \/ All
    \/ Length
    \/ Clear
    \/ \E sid \in Sids, session \in Payloads : Touch(sid, session)
    \/ CleanupSessions
    \/ RebuildIndex
    \/ StartCleanup
    \/ StopCleanup
    \/ StartIndexRebuild
    \/ StopIndexRebuild
    \/ Tick

\* The memory store variables but the clock
memVars == <<sessions, expirationIndex, cleanupIntervalId, indexRebuildIntervalId,
             timers, pending, lastCall, history>>

\* The JavaScript value null, where a session or an error can stand
JsNull == [type |-> "null"]

\* A call of the file store: its method and arguments, where it stands
\* (pc), whether its callback ran (replied) and with what (args), the
\* content set() prepared (data), the file descriptor fs.writeFile holds
\* (fd: closed, open on the file of sid, or open on a file that has been
\* unlinked since), and for all/clear the files still to visit (todo) and
\* the sessions read so far (acc)
NewCall(op, sid, session, pc) ==
    [op |-> op, sid |-> sid, session |-> session, pc |-> pc,
     replied |-> FALSE, args |-> <<>>, data |-> JsNull, fd |-> "closed",
     todo |-> {}, acc |-> {}]

\* A call slot of the file store that holds no call
IdleCall == NewCall("none", "", JsNull, "idle")

\* The two concurrent call slots of the file store
Slots == {"c1", "c2"}

\* What files[sid] is when the directory has no file for sid
NoFile == [exists |-> FALSE]

\* What can be at this.path: a directory, nothing (fs calls fail with
\* ENOENT), or a path that cannot be reached, as under a regular file (fs
\* calls fail with ENOTDIR)
Paths == {"present", "missing", "unreachable"}

\* new FileStore(options): the constructor starts ensureDirectory() and
\* returns with fs.access pending; this.path holds no session file.  On a
\* directory the access resolves and ensureDirectory returns: nothing it
\* does is left that a call of the store could tell, so ensure is "done".
FileInit ==
    /\ directory \in {[path |-> p, ensure |-> IF p = "present" THEN "done" ELSE "access"] :
                        p \in Paths}
    /\ files = [sid \in Sids |-> NoFile]
    /\ calls = [c \in Slots |-> IdleCall]

\* Both stores right after construction
StoresInit == Init /\ FileInit

\* Both stores right after construction, on a path that does not exist yet
FreshInit == StoresInit /\ directory.path = "missing"

\* The memory store, with no file store call running
Spec == FreshInit /\ [][Next]_<<vars, fileVars>>

\* ------------------------------------------------------------ readings
\* The sids that all() returns for store st at clock t
AllSids(st, t) ==
    LET result == all(st, SameRead(Len(st.sessions), t))
    IN  {result[i].sid : i \in 1..Len(result)}

\* A clock value no expiry of the model exceeds
Horizon == MaxNow + maxAge

\* The clock values from t on, up to the last expiry the model can hold
From(t) == t..Horizon

\* The positions of map m
Positions(m) == 1..Len(m)

\* The entries of map m, as a set
Range(m) == {m[i] : i \in Positions(m)}

\* The store after an index rebuild pass during which the clock stands at t
rebuildAt(st, t) == rebuildIndex(st, SameRead(Len(st.sessions), t))

\* The callback that the call just made has handed to process.nextTick
Deferred == pending[Len(pending)]

\* ---------------------------------------------------------------- C1
\* C1: every read path treats a record with now >= expiresAt as absent:
\* get(sid) returns no record and all() does not contain sid, the boundary
\* now = expiresAt included, while the record is still in the primary map.
C1_ExpiredIsAbsent ==
    \A sid \in Sids :
        (Present(sid) /\ now >= Record(sid).expires)
            => /\ getArgs(Store, sid, now) = <<>>
               /\ sid \notin AllSids(Store, now)

\* ---------------------------------------------------------------- C2
\* C2: after set(sid, session), a get(sid) before the clock reaches the
\* expiry returns the session that was set, whatever cleanup and index
\* rebuild passes ran in between (and no other call on sid).
C2_RoundTrip ==
    lastCall.op = "set" =>
        LET sid  == lastCall.sid
            want == <<Null, lastCall.session>>
        IN  \A t \in now..(now + maxAge - 1) :
                /\ getArgs(Store, sid, t) = want
                /\ getArgs(cleanupSessions(Store, t), sid, t) = want
                /\ getArgs(rebuildAt(Store, t), sid, t) = want
                /\ getArgs(cleanupSessions(rebuildAt(Store, t), t), sid, t) = want
                /\ getArgs(rebuildAt(cleanupSessions(Store, t), t), sid, t) = want

\* ---------------------------------------------------------------- C3
\* C3: once destroy(sid) has completed, a get(sid) called in any later
\* state returns no record (its deferred callback receives no arguments)
\* and all() excludes sid, whatever get, touch, destroy, all, length calls
\* and cleanup and rebuild passes follow, until set(sid).
C3_DestroyedStaysAbsent ==
    /\ [](\A sid \in Sids :
            history[sid].destroyed
                => /\ getArgs(Store, sid, now) = <<>>
                   /\ sid \notin AllSids(Store, now))
    /\ [][\A sid \in Sids :
            (lastCall'.op = "get" /\ lastCall'.sid = sid /\ history[sid].destroyed)
                => /\ ~Deferred'.ref
                   /\ Deferred'.args = <<>>]_vars

\* A record was set, destroyed and then touched, with the other sid stored.
C3_Witness ==
    /\ history["s1"].everSet
    /\ history["s1"].destroyed
    /\ lastCall.op = "touch"
    /\ lastCall.sid = "s1"
    /\ Present("s2")

\* ---------------------------------------------------------------- C4
\* C4: touch(sid, session) on a sid absent from the primary map changes
\* neither map and reports no error; a sid that was never set is reported
\* absent by get in every state.
C4_TouchAbsentIsNoop ==
    /\ [](\A sid \in Sids : ~history[sid].everSet => getArgs(Store, sid, now) = <<>>)
    /\ [][\A sid \in Sids :
            (lastCall'.op = "touch" /\ lastCall'.sid = sid /\ ~Present(sid))
                => /\ sessions' = sessions
                   /\ expirationIndex' = expirationIndex
                   /\ lastCall'.args = <<>>]_vars

\* touch ran on a sid that was never set, while the store held another record.
C4_Witness ==
    /\ lastCall.op = "touch"
    /\ lastCall.sid = "s1"
    /\ ~history["s1"].everSet
    /\ ~Present("s1")
    /\ Present("s2")

\* ---------------------------------------------------------------- C5
\* C5 (as claimed): touch(sid, session) on a live sid sets the record's
\* expires to a value strictly greater than its previous expires, and a
\* following get(sid) returns the session passed to touch.
C5_TouchExtendsStrictly ==
    [][\A sid \in Sids :
        (lastCall'.op = "touch" /\ lastCall'.sid = sid
            /\ Present(sid) /\ now < Record(sid).expires)
            => /\ Present(sid)'
               /\ Record(sid)'.expires > Record(sid).expires
               /\ getArgs(Store, sid, now)' = <<Null, lastCall'.session>>]_vars

\* C5 (amended): touch(sid, session) on a live sid sets the record's expires
\* to now + maxAge, which is never less than its previous expires (equal
\* when the clock has not advanced since the record was written), and a
\* following get(sid) returns the session passed to touch.
C5_TouchExtends ==
    [][\A sid \in Sids :
        (lastCall'.op = "touch" /\ lastCall'.sid = sid
            /\ Present(sid) /\ now < Record(sid).expires)
            => /\ Present(sid)'
               /\ Record(sid)'.expires = now + maxAge
               /\ Record(sid)'.expires >= Record(sid).expires
               /\ getArgs(Store, sid, now)' = <<Null, lastCall'.session>>]_vars

\* touch ran on a stored record after the clock advanced, and replaced its
\* payload and expiry.
C5_Witness ==
    /\ lastCall.op = "touch"
    /\ now >= 1
    /\ Present(lastCall.sid)
    /\ Record(lastCall.sid).expires = now + maxAge
    /\ Record(lastCall.sid).data = lastCall.session
    /\ Len(expirationIndex) = 1

\* ---------------------------------------------------------------- C6
\* C6: with the cleanup loop started and the callers silent, cleanup passes
\* alone remove every record with expires <= now from the primary map as the
\* clock advances: the passes up to a clock value past every expiry leave
\* no record that is expired now (no expired record is out of their reach).
C6_CleanupReclaimsExpired ==
    \A sid \in Sids :
        (cleanupIntervalId # Null /\ Present(sid) /\ Record(sid).expires <= now)
            => ~MapHas(cleanupSessions(Store, Horizon).sessions, sid)

\* ---------------------------------------------------------------- C7
\* C7: right after an index rebuild pass the expiration index iterates in
\* ascending expires order, so a cleanup pass at any later clock value,
\* which stops at the first entry with expires > now, leaves no index entry
\* with expires <= now.
C7_RebuildSortsIndex ==
    lastCall.op = "rebuildIndex" =>
        /\ \A i, j \in Positions(expirationIndex) :
                i < j => expirationIndex[i][1] < expirationIndex[j][1]
        /\ \A t \in From(now) :
                LET left == cleanupSessions(Store, t).expirationIndex
                IN  \A i \in Positions(left) : left[i][1] > t

\* ---------------------------------------------------------------- C8
\* C8 (as claimed): right after an index rebuild pass no sid is referenced
\* by more than one index entry, every index entry references a sid that is
\* in the primary map, live, and whose expires is the entry's key, and the
\* primary map holds no record with expires <= now.
C8_RebuildRepairsIndex ==
    lastCall.op = "rebuildIndex" =>
        /\ \A i, j \in Positions(expirationIndex) :
                expirationIndex[i][2] = expirationIndex[j][2] => i = j
        /\ \A i \in Positions(expirationIndex) :
                /\ Present(expirationIndex[i][2])
                /\ Record(expirationIndex[i][2]).expires = expirationIndex[i][1]
                /\ Record(expirationIndex[i][2]).expires > now
        /\ \A i \in Positions(sessions) : sessions[i][2].expires > now

\* C8 (amended): an index rebuild pass leaves no sid referenced by more than
\* one index entry, every index entry referencing a sid that is in the
\* primary map with the entry's key as its expires; every record and index
\* entry it leaves has expires greater than the clock at the start of the
\* pass (the clock may reach that expiry while the pass runs), and it
\* leaves every record with expires greater than the clock at its end.
C8_RebuildRepairsIndexFromStart ==
    [][lastCall'.op = "rebuildIndex" =>
        /\ \A i, j \in Positions(expirationIndex') :
                expirationIndex'[i][2] = expirationIndex'[j][2] => i = j
        /\ \A i \in Positions(expirationIndex') :
                /\ MapHas(sessions', expirationIndex'[i][2])
                /\ MapGet(sessions', expirationIndex'[i][2]).expires = expirationIndex'[i][1]
                /\ expirationIndex'[i][1] > now
        /\ \A i \in Positions(sessions') : sessions'[i][2].expires > now
        /\ \A i \in Positions(sessions) :
                sessions[i][2].expires > now' => sessions[i] \in Range(sessions')]_vars

\* A rebuild pass ran over two records set at different clock values, kept
\* both, and the clock reached the expiry of one of them during the pass.
C8_Witness ==
    /\ lastCall.op = "rebuildIndex"
    /\ Len(sessions) = 2
    /\ Len(expirationIndex) = 2
    /\ \E i \in Positions(sessions) : sessions[i][2].expires <= now

\* ---------------------------------------------------------------- C9
\* C9: all() calls back with exactly the (sid, session) pairs
\* of the records of the primary map with expires > now at the instant of
\* the call, and changes neither map.
C9_AllReturnsLive ==
    [][lastCall'.op = "all" =>
        LET result == lastCall'.args[2]
            live   == {i \in Positions(sessions) : sessions[i][2].expires > now}
        IN  /\ sessions' = sessions
            /\ expirationIndex' = expirationIndex
            /\ lastCall'.args[1] = Null
            /\ Len(result) = Cardinality(live)
            /\ {<<result[i].sid, result[i].session>> : i \in Positions(result)}
                   = {<<sessions[i][1], sessions[i][2].data>> : i \in live}]_vars

\* --------------------------------------------------------------- C10
\* C10: each background loop has at most one active timer in every state;
\* start on a started loop and stop on a stopped loop change nothing;
\* starting or stopping one loop leaves the other alone; a stopped loop has
\* no timer, so none of its passes runs until it is started again.
C10_OneTimerPerLoop ==
    /\ [](/\ Cardinality(TimersOf("cleanup")) <= 1
          /\ Cardinality(TimersOf("rebuild")) <= 1
          /\ (cleanupIntervalId = Null => TimersOf("cleanup") = {})
          /\ (indexRebuildIntervalId = Null => TimersOf("rebuild") = {}))
    /\ [][
           /\ (lastCall'.op = "startCleanup" /\ cleanupIntervalId # Null)
                => UNCHANGED <<timers, cleanupIntervalId>>
           /\ (lastCall'.op = "stopCleanup" /\ cleanupIntervalId = Null)
                => UNCHANGED <<timers, cleanupIntervalId>>
           /\ (lastCall'.op = "startIndexRebuild" /\ indexRebuildIntervalId # Null)
                => UNCHANGED <<timers, indexRebuildIntervalId>>
           /\ (lastCall'.op = "stopIndexRebuild" /\ indexRebuildIntervalId = Null)
                => UNCHANGED <<timers, indexRebuildIntervalId>>
           /\ (lastCall'.op \in {"startCleanup", "stopCleanup"})
                => /\ TimersOf("rebuild")' = TimersOf("rebuild")
                   /\ UNCHANGED <<indexRebuildIntervalId, sessions, expirationIndex>>
           /\ (lastCall'.op \in {"startIndexRebuild", "stopIndexRebuild"})
                => /\ TimersOf("cleanup")' = TimersOf("cleanup")
                   /\ UNCHANGED <<cleanupIntervalId, sessions, expirationIndex>>
           /\ (lastCall'.op = "cleanupSessions" => cleanupIntervalId # Null)
           /\ (lastCall'.op = "rebuildIndex" => indexRebuildIntervalId # Null)]_vars

\* startCleanup was called with both loops running, and one timer each is left.
C10_Witness ==
    /\ lastCall.op = "startCleanup"
    /\ cleanupIntervalId # Null
    /\ indexRebuildIntervalId # Null
    /\ cleanupIntervalId # indexRebuildIntervalId
    /\ Cardinality(timers) = 2

\* --------------------------------------------------------------- C11
\* C11: clear() leaves both maps empty, so that length() is 0 and all() is
\* empty at once; length() calls back with the raw number of primary-map
\* entries, expired ones that are not reclaimed included.
C11_ClearEmptiesLengthCounts ==
    [][
       /\ lastCall'.op = "clear"
            => /\ sessions' = <<>>
               /\ expirationIndex' = <<>>
               /\ length(Store)' = 0
               /\ all(Store, SameRead(Len(sessions), now))' = <<>>
       /\ lastCall'.op = "length"
            => /\ lastCall'.args = <<Null, Cardinality({sid \in Sids : Present(sid)})>>
               /\ sessions' = sessions
               /\ expirationIndex' = expirationIndex]_vars

\* clear() ran after both sids were set and the clock advanced.
C11_Witness ==
    /\ lastCall.op = "clear"
    /\ \A sid \in Sids : history[sid].everSet /\ ~history[sid].destroyed
    /\ now >= 1
    /\ sessions = <<>>
    /\ expirationIndex = <<>>

\* --------------------------------------------------------------- C16
\* C16: get(sid) on a record that is present but expired (now >= expires)
\* returns no record and reclaims it: the primary map no longer holds sid,
\* length() is one smaller and the index entry keyed by the record's expires
\* is gone; get(sid) on a live record changes neither map.
C16_GetReclaimsExpired ==
    [][\A sid \in Sids :
        (lastCall'.op = "get" /\ lastCall'.sid = sid /\ Present(sid))
            => IF now >= Record(sid).expires
               THEN /\ ~Deferred'.ref
                    /\ Deferred'.args = <<>>
                    /\ ~Present(sid)'
                    /\ length(Store)' = length(Store) - 1
                    /\ ~MapHas(expirationIndex', Record(sid).expires)
               ELSE /\ sessions' = sessions
                    /\ expirationIndex' = expirationIndex]_vars

\* --------------------------------------------------------------- C17
\* C17: a cleanup pass never removes a live record: a record with
\* now < expires is in the primary map after the pass, and get returns it.
C17_CleanupSparesLive ==
    [][lastCall'.op = "cleanupSessions" =>
        \A sid \in Sids :
            (Present(sid) /\ now < Record(sid).expires)
                => /\ Present(sid)'
                   /\ getArgs(Store, sid, now)' = <<Null, Record(sid).data>>]_vars

\* --------------------------------------------------------------- C18
\* C18: in every state every record of the primary map has an index entry
\* whose key is the record's expires and whose value is the record's sid.
C18_IndexCoversRecords ==
    \A i \in Positions(sessions) :
        \E j \in Positions(expirationIndex) :
            /\ expirationIndex[j][1] = sessions[i][2].expires
            /\ expirationIndex[j][2] = sessions[i][1]

\* --------------------------------------------------------------- C19
\* C19: once the clock has reached a record's expires and get reports the
\* record absent, no call or pass other than set(sid) makes get(sid) return
\* a payload again; touch(sid) on the unreclaimed record does not revive it.
C19_ExpiryIsPermanent ==
    [][\A sid \in Sids :
        (/\ Present(sid)
         /\ now >= Record(sid).expires
         /\ getArgs(Store, sid, now) = <<>>
         /\ ~(lastCall'.op = "set" /\ lastCall'.sid = sid))
            => getArgs(Store, sid, now)' = <<>>]_vars

\* ============================================================ FileStore
\* src/storages/fileStore.js.  An fs call takes effect in the thread pool
\* (one step; fs.writeFile two, its open and its write) and the promise
\* handler it settles runs later on the event loop (another step); the
\* steps of concurrent calls interleave.

\* A Date value with the given clock value
Date(ms) == [type |-> "Date", ms |-> ms]

\* Date.prototype.toISOString: the text of a Date
toISOString(d) == [type |-> "string", iso |-> d.ms]

\* new Date(text): the Date an ISO text denotes
newDate(s) == [type |-> "Date", ms |-> s.iso]

\* An Error with a message, and the error of a failed fs call
Error(message) == [type |-> "Error", message |-> message]
FsError(code) == [type |-> "Error", code |-> code]

\* What an fs promise that has nothing to hand over resolves with
FsOk == [type |-> "undefined"]

\* obj has the property k
HasKey(obj, k) == k \in DOMAIN obj

\* v is an Error: the promise was rejected
IsError(v) == HasKey(v, "type") /\ v.type = "Error"

\* error.code === code (undefined on an Error that has no code)
HasCode(error, code) == HasKey(error, "code") /\ error.code = code

\* v is truthy (of the values of the model only null is falsy)
Truthy(v) == ~(HasKey(v, "type") /\ v.type = "null")

\* obj.k is truthy (a missing property is undefined)
TruthyAt(obj, k) == HasKey(obj, k) /\ Truthy(obj[k])

\* The sessions the callers pass: without and with a cookie
FilePayloads ==
    {[a |-> 1],
     [a |-> 1, cookie |-> [path |-> "/", expires |-> Date(FileMaxNow)]]}

\* The order in which readdir lists the files
SidOrder == <<"s1", "s2">>

\* JSON.stringify(sessionData): the content of a well-formed file
JSONstringify(value) == [exists |-> TRUE, json |-> TRUE, value |-> value]

\* JSON.parse(data) of a well-formed file
JSONparse(data) == data.value

\* The content of a file of n units of text that JSON.parse rejects
Garbage(n) == [exists |-> TRUE, json |-> FALSE, size |-> n]

\* The file fs.writeFile has opened (flag 'w': created or truncated) and
\* not written yet: no text, which JSON.parse rejects
Empty == Garbage(0)

\* The length of the text of a file, in units: the text of a record with a
\* cookie object is longer than that of a record with cookie null (sid and
\* the ISO dates have one length)
Size(data) ==
    IF data.json
    THEN IF TruthyAt(JSONparse(data).session, "cookie") THEN 2 ELSE 1
    ELSE data.size

\* fs.writeFile writes text at the start of the file its descriptor is
\* open on.  Text another writer put there since the file was truncated
\* stays beyond the end of the new text, and JSON.parse rejects the mix.
Overwrite(old, text) ==
    IF Size(text) >= Size(old) THEN text ELSE Garbage(Size(old))

\* set: the cookie of the stored session (lines 62-65)
setCookie(session) ==
    IF TruthyAt(session, "cookie")
    THEN [k \in DOMAIN session.cookie \cup {"expires"} |->
            IF k = "expires"
            THEN IF TruthyAt(session.cookie, "expires")
                 THEN toISOString(session.cookie.expires)
                 ELSE JsNull
            ELSE session.cookie[k]]
    ELSE JsNull

\* set: the object sessionData (lines 58-68)
setSessionData(sid, session, t) ==
    [sid     |-> sid,
     session |-> [k \in DOMAIN session \cup {"cookie"} |->
                    IF k = "cookie" THEN setCookie(session) ELSE session[k]],
     expires |-> toISOString(Date(t + ttl))]

\* get: the test that the record read has expired (line 35)
getExpired(sessionData, t) ==
    TruthyAt(sessionData, "expires") /\ newDate(sessionData.expires).ms <= t

\* get: the session handed to the callback, cookie.expires a Date again
getSession(sessionData) ==
    LET session == sessionData.session
    IN  IF TruthyAt(session, "cookie") /\ TruthyAt(session.cookie, "expires")
        THEN [session EXCEPT !.cookie.expires = newDate(@)]
        ELSE session

\* The .then branch of get as it would be if a file JSON.parse rejects
\* were skipped like a missing one
getThenSkipsGarbage(data, t) ==
    IF ~data.json
    THEN [pc |-> "done", args |-> <<>>]
    ELSE IF getExpired(JSONparse(data), t)
         THEN [pc |-> "unlink", args |-> <<>>]
         ELSE [pc |-> "done", args |-> <<JsNull, getSession(JSONparse(data))>>]

\* get: the .then branch, on the content read (lines 32-46): the callback
\* is called (done) or this.destroy is (unlink)
getThen(data, t) ==
    IF ~data.json
    THEN [pc |-> "done", args |-> <<Error("Failed to parse session data")>>]
    ELSE IF getExpired(JSONparse(data), t)
         THEN [pc |-> "unlink", args |-> <<>>]
         ELSE [pc |-> "done", args |-> <<JsNull, getSession(JSONparse(data))>>]

\* get: the .catch branch, on the error of readFile (lines 47-53)
getCatch(error) ==
    IF HasCode(error, "ENOENT")
    THEN [pc |-> "done", args |-> <<>>]
    ELSE [pc |-> "done", args |-> <<Error("Failed to read session data")>>]

\* set: the arguments of the callback, on what writeFile settled with
setArgs(settled) ==
    IF IsError(settled) THEN <<Error("Failed to write session data")>> ELSE <<>>

\* destroy: the arguments of the callback, on what unlink settled with
destroyArgs(settled) ==
    IF IsError(settled) /\ ~HasCode(settled, "ENOENT")
    THEN <<Error("Failed to destroy session")>>
    ELSE <<>>

\* A call that has called back with args and has nothing left to do
Done(call, args) ==
    [NewCall(call.op, call.sid, JsNull, "done") EXCEPT !.replied = TRUE, !.args = args]

\* A call whose writeFile or unlink has settled with value v: its handler
\* has no use for the session
Settled(call, pc, v) == [NewCall(call.op, call.sid, JsNull, pc) EXCEPT !.data = v]

\* touch: the callback it gives to get (lines 123-127); this.set reads
\* Date.now(), which returns t
touchCallback(call, args, t) ==
    IF Len(args) >= 1 /\ args[1] # JsNull
    THEN Done(call, <<args[1]>>)
    ELSE IF Len(args) < 2
         THEN Done(call, <<>>)
         ELSE [call EXCEPT !.pc = "write",
                           !.data = JSONstringify(setSessionData(call.sid, call.session, t))]

\* get has called back with args: get is done, touch goes on
getCallback(call, args, t) ==
    IF call.op = "touch" THEN touchCallback(call, args, t) ELSE Done(call, args)

\* The call after the handler that readFile of get settled has run with
\* outcome r
afterRead(call, r, t) ==
    IF r.pc = "unlink"
    THEN [call EXCEPT !.pc = "unlink", !.data = JsNull]
    ELSE getCallback(call, r.args, t)

\* all: the array handed to the callback, in the order of the listing
RECURSIVE allSessions(_, _)
allSessions(acc, n) ==
    IF n = 0
    THEN <<>>
    ELSE LET rest == allSessions(acc, n - 1)
             here == {x \in acc : x.sid = SidOrder[n]}
         IN  IF here = {} THEN rest ELSE Append(rest, CHOOSE x \in here : TRUE)

\* all: what the readFile of a listed file and its .then hand to
\* Promise.all, on the content of the file
allRead(sid, data) ==
    IF ~data.exists THEN FsError("ENOENT")
    ELSE IF ~data.json THEN Error("SyntaxError")
    ELSE [sid |-> sid, session |-> JSONparse(data).session]

\* A slot is free when it holds no call or a call that has finished
Free(c) == calls[c].pc \in {"idle", "done"}

\* A new call takes slot c1 when it is free, c2 while c1 is busy
CanStart(c) == Free(c) /\ (c = "c2" => ~Free("c1"))

\* The slot c holds the call
Becomes2(c, call) == calls' = [calls EXCEPT ![c] = call]

\* The memory store stands still
MemoryIdle == UNCHANGED memVars

\* The process runs: the constructor does not await ensureDirectory(), so
\* its rejection is unhandled, and Node ends the process on it
ProcessRuns == directory.ensure \notin {"access failed", "mkdir failed"}

\* this.path is a directory
DirectoryExists == directory.path = "present"

\* The error of an fs call on this.path, or on a file of it, when this.path
\* is no directory
PathError == FsError(IF directory.path = "missing" THEN "ENOENT" ELSE "ENOTDIR")

\* What fs.readFile of the file of sid settles with
readFile(sid) ==
    IF ~DirectoryExists THEN PathError
    ELSE IF files[sid].exists THEN files[sid] ELSE FsError("ENOENT")

\* What fs.unlink of the file of sid settles with
unlink(sid) ==
    IF ~DirectoryExists THEN PathError
    ELSE IF files[sid].exists THEN FsOk ELSE FsError("ENOENT")

\* The calls once the file of sid is unlinked: a descriptor open on it
\* stays open, on a file that has no name any more
Unlinked(cs, sid) ==
    [d \in Slots |->
        IF cs[d].fd = "open" /\ cs[d].sid = sid
        THEN [cs[d] EXCEPT !.fd = "unlinked"]
        ELSE cs[d]]

\* ensureDirectory: fs.access rejects with ENOENT on a missing path, which
\* leads to fs.mkdir
Access ==
    /\ directory.ensure = "access"
    /\ directory.path = "missing"
    /\ directory' = [directory EXCEPT !.ensure = "mkdir"]
    /\ UNCHANGED <<files, calls, now>> /\ MemoryIdle

\* ensureDirectory: fs.access fails with an error other than ENOENT, which
\* is logged and thrown: the promise nobody awaits is rejected and the
\* process ends
AccessFails ==
    /\ directory.ensure = "access"
    /\ directory.path = "unreachable"
    /\ directory' = [directory EXCEPT !.ensure = "access failed"]
    /\ UNCHANGED <<files, calls, now>> /\ MemoryIdle

\* ensureDirectory: fs.mkdir creates the directory
Mkdir ==
    /\ directory.ensure = "mkdir"
    /\ directory' = [path |-> "present", ensure |-> "done"]
    /\ UNCHANGED <<files, calls, now>> /\ MemoryIdle

\* ensureDirectory: fs.mkdir fails; the error is logged and thrown, and the
\* process ends
MkdirFails ==
    /\ directory.ensure = "mkdir"
    /\ directory' = [directory EXCEPT !.ensure = "mkdir failed"]
    /\ UNCHANGED <<files, calls, now>> /\ MemoryIdle

\* store.get(sid, callback): readFile is issued
FileGet(c, sid) ==
    /\ ProcessRuns
    /\ CanStart(c)
    /\ Becomes2(c, NewCall("get", sid, JsNull, "read"))
    /\ UNCHANGED <<directory, files, now>> /\ MemoryIdle

\* store.set(sid, session, callback): sessionData is built, writeFile issued
FileSet(c, sid, session) ==
    /\ ProcessRuns
    /\ CanStart(c)
    /\ Becomes2(c, [NewCall("set", sid, session, "write") EXCEPT
                        !.data = JSONstringify(setSessionData(sid, session, now))])
    /\ UNCHANGED <<directory, files, now>> /\ MemoryIdle

\* store.destroy(sid, callback): unlink is issued
FileDestroy(c, sid) ==
    /\ ProcessRuns
    /\ CanStart(c)
    /\ Becomes2(c, NewCall("destroy", sid, JsNull, "unlink"))
    /\ UNCHANGED <<directory, files, now>> /\ MemoryIdle

\* store.touch(sid, session, callback): this.get is called; the callback
\* given to it holds the caller's session object
FileTouch(c, sid, session) ==
    /\ ProcessRuns
    /\ CanStart(c)
    /\ Becomes2(c, NewCall("touch", sid, session, "read"))
    /\ UNCHANGED <<directory, files, now>> /\ MemoryIdle

\* The caller writes to the session object it passed to touch while the
\* read is in flight: this.set (line 126) reads the object when the read
\* has settled, and finds the properties of session
FileCallerWrites(c, session) ==
    /\ ProcessRuns
    /\ calls[c].op = "touch"
    /\ calls[c].pc \in {"read", "readSettled"}
    /\ calls[c].session # session
    /\ Becomes2(c, [calls[c] EXCEPT !.session = session])
    /\ UNCHANGED <<directory, files, now>> /\ MemoryIdle

\* store.all(callback): readdir is issued
FileAll(c) ==
    /\ ProcessRuns
    /\ CanStart(c)
    /\ Becomes2(c, NewCall("all", "", JsNull, "readdir"))
    /\ UNCHANGED <<directory, files, now>> /\ MemoryIdle

\* store.length(callback): readdir is issued
FileLength(c) ==
    /\ ProcessRuns
    /\ CanStart(c)
    /\ Becomes2(c, NewCall("length", "", JsNull, "readdir"))
    /\ UNCHANGED <<directory, files, now>> /\ MemoryIdle

\* store.clear(callback): readdir is issued
FileClear(c) ==
    /\ ProcessRuns
    /\ CanStart(c)
    /\ Becomes2(c, NewCall("clear", "", JsNull, "readdir"))
    /\ UNCHANGED <<directory, files, now>> /\ MemoryIdle

\* get: fs.readFile takes the content of the file, or fails on a missing
\* file (ENOENT) or path
ReadFile(c) ==
    /\ ProcessRuns
    /\ calls[c].pc = "read"
    /\ Becomes2(c, [calls[c] EXCEPT !.pc = "readSettled", !.data = readFile(calls[c].sid)])
    /\ UNCHANGED <<directory, files, now>> /\ MemoryIdle

\* get: fs.readFile fails with another error
ReadFileFails(c) ==
    /\ ProcessRuns
    /\ calls[c].pc = "read"
    /\ Becomes2(c, [calls[c] EXCEPT !.pc = "readSettled", !.data = FsError("EIO")])
    /\ UNCHANGED <<directory, files, now>> /\ MemoryIdle

\* get: the .then or .catch handler runs on what readFile settled with.
\* The expiry test reads the clock (new Date(), line 35); on touch's path
\* this.set reads it again (Date.now(), line 67) and may find it advanced.
GetSettles(c) ==
    /\ ProcessRuns
    /\ calls[c].pc = "readSettled"
    /\ LET call == calls[c]
           r    == IF IsError(call.data) THEN getCatch(call.data) ELSE getThen(call.data, now)
       IN  \E t \in now..FileMaxNow :
              /\ (t = now \/ afterRead(call, r, now).pc = "write")
              /\ Becomes2(c, afterRead(call, r, t))
              /\ now' = t
    /\ UNCHANGED <<directory, files>> /\ MemoryIdle

\* destroy: fs.unlink removes the file, or fails on a missing file (ENOENT)
\* or path
Unlink(c) ==
    /\ ProcessRuns
    /\ calls[c].pc = "unlink"
    /\ files' = [files EXCEPT ![calls[c].sid] = NoFile]
    /\ calls' = Unlinked([calls EXCEPT ![c] = Settled(calls[c], "unlinkSettled",
                                                       unlink(calls[c].sid))],
                         calls[c].sid)
    /\ UNCHANGED <<directory, now>> /\ MemoryIdle

\* destroy: fs.unlink fails with another error, and the file stays
UnlinkFails(c) ==
    /\ ProcessRuns
    /\ calls[c].pc = "unlink"
    /\ Becomes2(c, Settled(calls[c], "unlinkSettled", FsError("EIO")))
    /\ UNCHANGED <<directory, files, now>> /\ MemoryIdle

\* destroy: the .then or .catch handler runs and calls back.  The callback
\* get's expiry path gives to destroy, () => callback(), drops the error;
\* touch's callback then finds no session.
DestroySettles(c) ==
    /\ ProcessRuns
    /\ calls[c].pc = "unlinkSettled"
    /\ Becomes2(c, IF calls[c].op = "destroy"
                   THEN Done(calls[c], destroyArgs(calls[c].data))
                   ELSE getCallback(calls[c], <<>>, now))
    /\ UNCHANGED <<directory, files, now>> /\ MemoryIdle

\* set: fs.writeFile opens the file with flag 'w', which creates it or
\* truncates it: the file is there and empty until the text is written.
\* The open fails on a missing path.
OpenFile(c) ==
    /\ ProcessRuns
    /\ calls[c].pc = "write"
    /\ IF DirectoryExists
       THEN /\ files' = [files EXCEPT ![calls[c].sid] = Empty]
            /\ Becomes2(c, [calls[c] EXCEPT !.pc = "writing", !.fd = "open"])
       ELSE /\ files' = files
            /\ Becomes2(c, Settled(calls[c], "writeSettled", PathError))
    /\ UNCHANGED <<directory, now>> /\ MemoryIdle

\* set: the open of fs.writeFile fails with another error (a file that is
\* not writable), and the file is as it was
OpenFileFails(c) ==
    /\ ProcessRuns
    /\ calls[c].pc = "write"
    /\ Becomes2(c, Settled(calls[c], "writeSettled", FsError("EIO")))
    /\ UNCHANGED <<directory, files, now>> /\ MemoryIdle

\* set: fs.writeFile writes the text through its descriptor and closes it;
\* a file unlinked since the open takes the text with it
WriteFile(c) ==
    /\ ProcessRuns
    /\ calls[c].pc = "writing"
    /\ files' = IF calls[c].fd = "open"
                THEN [files EXCEPT ![calls[c].sid] = Overwrite(@, calls[c].data)]
                ELSE files
    /\ Becomes2(c, Settled(calls[c], "writeSettled", FsOk))
    /\ UNCHANGED <<directory, now>> /\ MemoryIdle

\* set: the write of fs.writeFile fails, and the file stays as the open
\* and the other writers left it
WriteFileFails(c) ==
    /\ ProcessRuns
    /\ calls[c].pc = "writing"
    /\ Becomes2(c, Settled(calls[c], "writeSettled", FsError("EIO")))
    /\ UNCHANGED <<directory, files, now>> /\ MemoryIdle

\* set: the .then or .catch handler runs and calls back
SetSettles(c) ==
    /\ ProcessRuns
    /\ calls[c].pc = "writeSettled"
    /\ Becomes2(c, Done(calls[c], setArgs(calls[c].data)))
    /\ UNCHANGED <<directory, files, now>> /\ MemoryIdle

\* all, length, clear: fs.readdir lists the names of the files, or fails
\* on a missing path
Readdir(c) ==
    /\ ProcessRuns
    /\ calls[c].pc = "readdir"
    /\ Becomes2(c, IF DirectoryExists
                   THEN [calls[c] EXCEPT !.pc = "readdirSettled",
                                         !.data = FsOk,
                                         !.todo = {sid \in Sids : files[sid].exists}]
                   ELSE [calls[c] EXCEPT !.pc = "readdirSettled",
                                         !.data = PathError])
    /\ UNCHANGED <<directory, files, now>> /\ MemoryIdle

\* all, length, clear: fs.readdir fails with another error
ReaddirFails(c) ==
    /\ ProcessRuns
    /\ calls[c].pc = "readdir"
    /\ Becomes2(c, [calls[c] EXCEPT !.pc = "readdirSettled", !.data = FsError("EIO")])
    /\ UNCHANGED <<directory, files, now>> /\ MemoryIdle

\* all, length, clear: the handler of readdir runs.  An error goes to the
\* callback as it is; length calls back with the count; all issues a
\* readFile and clear an unlink for every name, and Promise.all of no
\* promise resolves at once.
ReaddirSettles(c) ==
    /\ ProcessRuns
    /\ calls[c].pc = "readdirSettled"
    /\ LET call == calls[c]
       IN  Becomes2(c,
             IF IsError(call.data) THEN Done(call, <<call.data>>)
             ELSE IF call.op = "length" THEN Done(call, <<JsNull, Cardinality(call.todo)>>)
             ELSE IF call.todo = {}
                  THEN Done(call, IF call.op = "all" THEN <<JsNull, <<>>>> ELSE <<>>)
                  ELSE [call EXCEPT !.data = JsNull,
                                    !.pc = IF call.op = "all" THEN "reading" ELSE "unlinking"])
    /\ UNCHANGED <<directory, files, now>> /\ MemoryIdle

\* all: the call once the readFile of the listed file of sid has settled
\* and its .then has run, with outcome read: a rejection is what
\* Promise.all rejects with
allAfter(call, sid, read) ==
    IF IsError(read)
    THEN [call EXCEPT !.todo = @ \ {sid}, !.data = read]
    ELSE [call EXCEPT !.todo = @ \ {sid}, !.acc = @ \cup {read}]

\* all: the readFile of one listed file settles.  The first rejection (a
\* missing file, content JSON.parse rejects) is what Promise.all rejects
\* with; the reads after it change nothing.
AllReadFile(c, sid) ==
    /\ ProcessRuns
    /\ calls[c].pc = "reading"
    /\ sid \in calls[c].todo
    /\ calls[c].data = JsNull
    /\ Becomes2(c, allAfter(calls[c], sid, allRead(sid, files[sid])))
    /\ UNCHANGED <<directory, files, now>> /\ MemoryIdle

\* all: the readFile of one listed file fails with another error
AllReadFileFails(c, sid) ==
    /\ ProcessRuns
    /\ calls[c].pc = "reading"
    /\ sid \in calls[c].todo
    /\ calls[c].data = JsNull
    /\ Becomes2(c, allAfter(calls[c], sid, FsError("EIO")))
    /\ UNCHANGED <<directory, files, now>> /\ MemoryIdle

\* all: Promise.all has settled and its handler calls back, with the
\* sessions or with the first rejection
AllSettles(c) ==
    /\ ProcessRuns
    /\ calls[c].pc = "reading"
    /\ calls[c].data # JsNull \/ calls[c].todo = {}
    /\ Becomes2(c, IF calls[c].data # JsNull
                   THEN Done(calls[c], <<calls[c].data>>)
                   ELSE Done(calls[c], <<JsNull, allSessions(calls[c].acc, Len(SidOrder))>>))
    /\ UNCHANGED <<directory, files, now>> /\ MemoryIdle

\* clear: the call once the unlink of the listed file of sid has settled:
\* the first rejection is what Promise.all rejects with, and the other
\* unlinks still run
clearAfter(call, sid, settled) ==
    LET left == [call EXCEPT
                    !.todo = @ \ {sid},
                    !.data = IF IsError(settled) /\ call.data = JsNull
                             THEN settled ELSE call.data]
    IN  IF left.replied /\ left.todo = {} THEN Done(left, left.args) ELSE left

\* clear: the unlink of one listed file removes it, or finds none (ENOENT)
ClearUnlink(c, sid) ==
    /\ ProcessRuns
    /\ calls[c].pc = "unlinking"
    /\ sid \in calls[c].todo
    /\ files' = [files EXCEPT ![sid] = NoFile]
    /\ calls' = Unlinked([calls EXCEPT ![c] = clearAfter(calls[c], sid, unlink(sid))], sid)
    /\ UNCHANGED <<directory, now>> /\ MemoryIdle

\* clear: the unlink of one listed file fails with another error, and the
\* file stays
ClearUnlinkFails(c, sid) ==
    /\ ProcessRuns
    /\ calls[c].pc = "unlinking"
    /\ sid \in calls[c].todo
    /\ Becomes2(c, clearAfter(calls[c], sid, FsError("EIO")))
    /\ UNCHANGED <<directory, files, now>> /\ MemoryIdle

\* clear: Promise.all has settled and its handler calls back, with no
\* arguments or with the first rejection
ClearSettles(c) ==
    /\ ProcessRuns
    /\ calls[c].pc = "unlinking"
    /\ ~calls[c].replied
    /\ calls[c].data # JsNull \/ calls[c].todo = {}
    /\ LET call == calls[c]
           args == IF call.data # JsNull THEN <<call.data>> ELSE <<>>
       IN  Becomes2(c, IF call.todo = {}
                       THEN Done(call, args)
                       ELSE [call EXCEPT !.replied = TRUE, !.args = args])
    /\ UNCHANGED <<directory, files, now>> /\ MemoryIdle

\* The text of a file is damaged from outside the store, into a text as
\* long as the longest record
CorruptFile(sid) ==
    /\ ProcessRuns
    /\ files[sid].exists
    /\ files[sid].json
    /\ files' = [files EXCEPT ![sid] = Garbage(2)]
    /\ UNCHANGED <<directory, calls, now>> /\ MemoryIdle

\* Date.now() advances
FileTick ==
    /\ ProcessRuns
    /\ now < FileMaxNow
    /\ now' = now + 1
    /\ UNCHANGED <<directory, files, calls>> /\ MemoryIdle

FileNext ==
    \/ Access
    \/ AccessFails
    \/ Mkdir
    \/ MkdirFails
    \/ \E c \in Slots, sid \in Sids : FileGet(c, sid)
    \/ \E c \in Slots, sid \in Sids, session \in FilePayloads : FileSet(c, sid, session)
    \/ \E c \in Slots, sid \in Sids : FileDestroy(c, sid)
    \/ \E c \in Slots, sid \in Sids, session \in FilePayloads : FileTouch(c, sid, session)
    \/ \E c \in Slots, session \in FilePayloads : FileCallerWrites(c, session)
    \/ \E c \in Slots : FileAll(c)
    \/ \E c \in Slots : FileLength(c)
    \/ \E c \in Slots : FileClear(c)
    \/ \E c \in Slots : ReadFile(c)
    \/ \E c \in Slots : ReadFileFails(c)
    \/ \E c \in Slots : GetSettles(c)
    \/ \E c \in Slots : Unlink(c)
    \/ \E c \in Slots : UnlinkFails(c)
    \/ \E c \in Slots : DestroySettles(c)
    \/ \E c \in Slots : OpenFile(c)
    \/ \E c \in Slots : OpenFileFails(c)
    \/ \E c \in Slots : WriteFile(c)
    \/ \E c \in Slots : WriteFileFails(c)
    \/ \E c \in Slots : SetSettles(c)
    \/ \E c \in Slots : Readdir(c)
    \/ \E c \in Slots : ReaddirFails(c)
    \/ \E c \in Slots : ReaddirSettles(c)
    \/ \E c \in Slots, sid \in Sids : AllReadFile(c, sid)
    \/ \E c \in Slots, sid \in Sids : AllReadFileFails(c, sid)
    \/ \E c \in Slots : AllSettles(c)
    \/ \E c \in Slots, sid \in Sids : ClearUnlink(c, sid)
    \/ \E c \in Slots, sid \in Sids : ClearUnlinkFails(c, sid)
    \/ \E c \in Slots : ClearSettles(c)
    \/ \E sid \in Sids : CorruptFile(sid)
    \/ FileTick

\* The file store, with the memory store as constructed
FileSpec == StoresInit /\ [][FileNext]_<<vars, fileVars>>

\* All the variables
allVars == <<vars, fileVars>>

\* The call in slot c takes the step that leaves pc
Leaves(c, op, pc) ==
    /\ calls[c].op = op
    /\ calls[c].pc = pc
    /\ calls'[c].pc # pc

\* --------------------------------------------------------------- C12
\* C12: once set(sid, session) has written the file, a get(sid) before the
\* record's expiry returns a session structurally equal to the one passed
\* to set, no field added or removed, also for a session with no cookie.
C12_FileRoundTrip ==
    [][\A c \in Slots :
        (Leaves(c, "set", "writing") /\ calls'[c].data = FsOk /\ calls[c].fd = "open") =>
            LET written == files'[calls[c].sid]
                expires == newDate(JSONparse(calls[c].data).expires).ms
            IN  \A t \in now..(expires - 1) :
                    getThen(written, t) =
                        [pc |-> "done", args |-> <<JsNull, calls[c].session>>]]_allVars

\* --------------------------------------------------------------- C13
\* C13: no call of the store ever calls back with the error of a missing
\* record file, in any interleaving of concurrent calls: a call that found
\* the directory listed and then a file of it gone calls back with no error.
C13_AbsenceIsNoError ==
    [][\A c \in Slots :
        (~calls[c].replied /\ calls'[c].replied /\ calls[c].pc # "readdirSettled")
            => ~(Len(calls'[c].args) >= 1 /\ calls'[c].args[1] = FsError("ENOENT"))]_allVars

\* --------------------------------------------------------------- C14
\* C14: touch(sid, session) never creates a record: in every interleaving
\* it opens the file of sid for writing only if a file of sid exists at
\* that moment, and when it finds no record it changes no file and reports
\* no error.
C14_TouchNeverCreates ==
    [][\A c \in Slots :
        /\ (Leaves(c, "touch", "write") /\ calls'[c].pc = "writing")
                => files[calls[c].sid].exists
        /\ (Leaves(c, "touch", "readSettled") /\ calls[c].data = FsError("ENOENT"))
                => /\ files' = files
                   /\ calls'[c].pc = "done"
                   /\ calls'[c].args = <<>>]_allVars

\* --------------------------------------------------------------- C15
\* C15: get(sid) on a file that cannot be parsed calls back with the error
\* "Failed to parse session data", which is neither the absent result of a
\* missing file nor the error of a failed read, and leaves the file in
\* place; get(sid) on a missing file calls back with no arguments.
C15_CorruptionIsReported ==
    [][\A c \in Slots :
        LET data == calls[c].data
            parseError == <<Error("Failed to parse session data")>>
            readError  == <<Error("Failed to read session data")>>
        IN  /\ Leaves(c, "get", "read")
                => /\ files' = files
                   /\ calls'[c].data =
                        IF ReadFile(c) THEN readFile(calls[c].sid) ELSE FsError("EIO")
            /\ (Leaves(c, "get", "readSettled") /\ ~IsError(data) /\ ~data.json)
                => /\ calls'[c].replied
                   /\ calls'[c].args = parseError
                   /\ calls'[c].args # <<>>
                   /\ calls'[c].args # readError
                   /\ files' = files
            /\ (Leaves(c, "get", "readSettled") /\ data = FsError("ENOENT"))
                => /\ calls'[c].replied
                   /\ calls'[c].args = <<>>
                   /\ files' = files
            /\ (Leaves(c, "get", "readSettled") /\ IsError(data) /\ ~HasCode(data, "ENOENT"))
                => /\ calls'[c].replied
                   /\ calls'[c].args = readError
                   /\ files' = files]_allVars

\* get("s1") has called back with the parse error, and the damaged file of
\* s1 is still there.
C15_Witness ==
    /\ calls["c1"].op = "get"
    /\ calls["c1"].sid = "s1"
    /\ calls["c1"].replied
    /\ calls["c1"].args = <<Error("Failed to parse session data")>>
    /\ files["s1"].exists
    /\ ~files["s1"].json

\* --------------------------------------------------------------- C20
\* C20: the unlink of get's expiry path never deletes a live record: in
\* every interleaving with a concurrent set or touch, the record in the
\* file it removes has expires <= now.
C20_LazyExpirySparesLive ==
    [][\A c \in Slots :
        ((Leaves(c, "get", "unlink") \/ Leaves(c, "touch", "unlink"))
            /\ calls'[c].data = FsOk)
            => LET data == files[calls[c].sid]
               IN  (data.exists /\ data.json) => getExpired(JSONparse(data), now)]_allVars

====
